---- MODULE Spec2Model ----
(***************************************************************************)
(* State-machine model of assets/js/main.js: the cart store (CartManager), *)
(* the fragment loader (ComponentLoader) and the bootstrapper (App.init).  *)
(*                                                                         *)
(* JavaScript runs one event-loop turn at a time to completion, so every   *)
(* action below is one turn: a synchronous handler, or the continuation of *)
(* an async function from one await that leaves the turn (fetch,           *)
(* response.text(), setTimeout) to the next.  Continuations chained only   *)
(* through promise microtasks belong to the turn that settled the promise. *)
(*                                                                         *)
(* Prices are kept in cents (89.99 is 8999).  The toast of                 *)
(* showAddToCartFeedback, console output, alert dialogs, and the body      *)
(* opacity are not part of the state.                                      *)
(***************************************************************************)
EXTENDS Integers, Sequences, FiniteSets, TLC

VARIABLES
    storage,        \* localStorage['sportpro-cart']
    cm,             \* window.cartManager: "none", "ready", or "failed" (constructor threw)
    cart,           \* window.cartManager.cart
    ui,             \* #cartCount, #cartTotal, #cartItems
    pending,        \* checkout completion timers not yet fired
    checkoutBound,  \* the click listener of #checkoutBtn is installed
    pc,             \* position of App.init
    net,            \* what the server answers for each fragment resource
    page,           \* the page markup as served: which mount points it has
    fetchSt,        \* per fragment: position of its load
    head,           \* children of document.head added by the loader
    mount,          \* the elements #header-container and #footer-container
    spliced,        \* per component: its fetched markup is in the document
    inits,          \* per component: number of initComponent calls
    lastOp,         \* the handler that ran last, with its arguments
    catalog,        \* #featuredProducts: "none", "loading" or "rendered"
    menu,           \* .menu-toggle and .nav-list of the header
    modal,          \* #cartModal
    timers,         \* pending callbacks of the modal's setTimeout calls, oldest first
    location,       \* window.location: protocol and pathname
    links,          \* href of every <a> of the document
    resources,      \* href/src of every <link href> and <script src>
    fixed           \* PathFixer.init has run

vars == <<storage, cm, cart, ui, pending, checkoutBound, pc, net, page,
          fetchSt, head, mount, spliced, inits, lastOp,
          catalog, menu, modal, timers, location, links, resources, fixed>>

widgetVars == <<menu, modal, timers>>
pathVars == <<location, links, resources, fixed>>

cartVars == <<storage, cm, cart, ui, pending, checkoutBound>>
loadVars == <<fetchSt, head, mount, spliced, inits>>

(***************************************************************************)
(* Bounds of the model.                                                    *)
(***************************************************************************)
MaxQuantity == 2        \* line-item quantities stay within -1..MaxQuantity
MaxPending == 1         \* checkout completion timers pending at once
MaxTimers == 2          \* modal callbacks pending at once
MaxInits == 2           \* runs of the header initialisation on one document
MaxLinks == 2           \* <a> elements of a document
MaxResources == 1       \* <link href> and <script src> elements of a document

(***************************************************************************)
(* JavaScript values: numbers, strings and undefined.                      *)
(***************************************************************************)
Num(n) == [t |-> "number", n |-> n, s |-> ""]
Str(s) == [t |-> "string", n |-> 0, s |-> s]
Undefined == [t |-> "undefined", n |-> 0, s |-> ""]

\* ToBoolean: undefined, 0 and "" are falsy.
Truthy(v) ==
    CASE v.t = "undefined" -> FALSE
      [] v.t = "number" -> v.n # 0
      [] v.t = "string" -> v.s # ""

\* a || b
OrElse(a, b) == IF Truthy(a) THEN a ELSE b

\* a === b
StrictEq(a, b) == a = b

RECURSIVE SumSeq(_)
SumSeq(s) == IF s = <<>> THEN 0 ELSE Head(s) + SumSeq(Tail(s))

Abs(x) == IF x < 0 THEN -x ELSE x

(***************************************************************************)
(* Inputs.                                                                 *)
(***************************************************************************)
\* Two products of the catalogue and one with a string identifier.
Products ==
    { [id |-> Num(1), name |-> Str("Zapatillas Running Pro"), price |-> Num(8999)],
      [id |-> Num(2), name |-> Str("Set Pesas Ajustables"), price |-> Num(14999)],
      [id |-> Str("1"), name |-> Str("X"), price |-> Num(1000)] }

\* product.quantity as passed to addProduct: absent, or an integer.
AddQuantities == {Undefined} \cup {Num(q) : q \in {-1, 0, 1, 2}}

\* quantity as passed to updateQuantity.
SetQuantities == {Num(q) : q \in {-1, 0, 1, 2}}

\* identifiers passed to removeProduct and updateQuantity; 99 is never added.
Identifiers == {p.id : p \in Products} \cup {Num(99)}

QuantityRange == (-1) .. MaxQuantity

(***************************************************************************)
(* JSON: the text is modelled by its structure, an array of objects, each  *)
(* a list of key/value pairs in property order.  undefined has no JSON     *)
(* form: JSON.stringify leaves the property out.                           *)
(***************************************************************************)
ItemKeys == <<"id", "name", "price", "quantity">>

StringifyObjectDroppingQuantity(item) ==
    SelectSeq(<<[key |-> "id", val |-> item.id],
                [key |-> "name", val |-> item.name],
                [key |-> "price", val |-> item.price]>>,
              LAMBDA kv : kv.val.t # "undefined")

StringifyObject(item) ==
    SelectSeq([i \in 1..Len(ItemKeys) |->
                  [key |-> ItemKeys[i], val |-> item[ItemKeys[i]]]],
              LAMBDA kv : kv.val.t # "undefined")

\* JSON.stringify(this.cart)
JSONstringify(c) == [i \in 1..Len(c) |-> StringifyObject(c[i])]

\* obj[key] of a parsed object: the last pair with that key, else undefined.
Property(pairs, key) ==
    LET hits == {i \in 1..Len(pairs) : pairs[i].key = key}
    IN IF hits = {} THEN Undefined
       ELSE pairs[CHOOSE i \in hits : \A j \in hits : j <= i].val

ParseObject(pairs) == [k \in {"id", "name", "price", "quantity"} |-> Property(pairs, k)]

\* JSON.parse of the text of an array
JSONparse(doc) == [i \in 1..Len(doc) |-> ParseObject(doc[i])]

Missing == [kind |-> "missing", doc |-> <<>>]     \* getItem returns null
Corrupt == [kind |-> "corrupt", doc |-> <<>>]     \* a text that is not JSON
Text(doc) == [kind |-> "text", doc |-> doc]

(***************************************************************************)
(* CartManager                                                             *)
(***************************************************************************)
\* new CartManager() throws: JSON.parse raises SyntaxError on text that is not JSON.
ConstructorThrows(st) == st.kind = "corrupt"

\* JSON.parse(localStorage.getItem('sportpro-cart')) || []
\* JSON.parse(null) is null, which is falsy; every array is truthy.
ConstructedCart(st) == IF st.kind = "text" THEN JSONparse(st.doc) ELSE <<>>

\* this.cart.find(item => item.id === id), as an index; 0 when there is none.
FindIndex(c, id) ==
    LET hits == {i \in 1..Len(c) : StrictEq(c[i].id, id)}
    IN IF hits = {} THEN 0 ELSE CHOOSE i \in hits : \A j \in hits : i <= j

SaveCartNothing(st, c) == st

\* saveCart
SaveCart(st, c) == Text(JSONstringify(c))

\* Number.prototype.toFixed(2) of an amount of cents/100
ToFixed2(cents) ==
    [neg |-> cents < 0, int |-> Abs(cents) \div 100, frac |-> Abs(cents) % 100]

\* renderCartItems: one row per line item; dataset.id is the identifier as a string
RenderCartItems(c) ==
    [i \in 1..Len(c) |->
        [dataId |-> IF c[i].id.t = "number" THEN ToString(c[i].id.n) ELSE c[i].id.s,
         name |-> c[i].name.s,
         price |-> ToFixed2(c[i].price.n),
         quantity |-> c[i].quantity.n]]

UpdateCartUICountOnly(u, c) ==
    IF u.exists
    THEN LET totalItems == SumSeq([i \in 1..Len(c) |-> c[i].quantity.n])
         IN [u EXCEPT !.count = totalItems,
                      !.display = IF totalItems > 0 THEN "flex" ELSE "none"]
    ELSE u

\* updateCartUI
UpdateCartUI(u, c) ==
    IF u.exists
    THEN LET totalItems == SumSeq([i \in 1..Len(c) |-> c[i].quantity.n])
             totalPrice == SumSeq([i \in 1..Len(c) |-> c[i].price.n * c[i].quantity.n])
         IN [exists |-> TRUE,
             count |-> totalItems,
             display |-> IF totalItems > 0 THEN "flex" ELSE "none",
             total |-> ToFixed2(totalPrice),
             rows |-> RenderCartItems(c)]
    ELSE u

\* The cart elements as they come in the header markup, before any refresh.
MarkupUI == [exists |-> TRUE, count |-> 0, display |-> "css",
             total |-> ToFixed2(0), rows |-> <<>>]
NoUI == [exists |-> FALSE, count |-> 0, display |-> "css",
         total |-> ToFixed2(0), rows |-> <<>>]

\* The store as the cart operations see it.
Store == [cart |-> cart, storage |-> storage, ui |-> ui]

RemoveProductBySplice(s, productId) ==
    LET i == FindIndex(s.cart, productId)
        k == IF i = 0 THEN Len(s.cart) ELSE i
        c == [j \in 1..(Len(s.cart) - (IF s.cart = <<>> THEN 0 ELSE 1)) |->
                 IF j < k THEN s.cart[j] ELSE s.cart[j + 1]]
    IN [cart |-> c, storage |-> SaveCart(s.storage, c), ui |-> UpdateCartUI(s.ui, c)]

\* removeProduct
RemoveProduct(s, productId) ==
    LET c == SelectSeq(s.cart, LAMBDA item : ~StrictEq(item.id, productId))
    IN [cart |-> c, storage |-> SaveCart(s.storage, c), ui |-> UpdateCartUI(s.ui, c)]

\* addProduct
AddProduct(s, product) ==
    LET i == FindIndex(s.cart, product.id)
        q == OrElse(product.quantity, Num(1))
        c == IF i # 0
             THEN [s.cart EXCEPT ![i].quantity = Num(@.n + q.n)]
             ELSE Append(s.cart, [id |-> product.id, name |-> product.name,
                                  price |-> product.price, quantity |-> q])
    IN [cart |-> c, storage |-> SaveCart(s.storage, c), ui |-> UpdateCartUI(s.ui, c)]

UpdateQuantityOffByOne(s, productId, quantity) ==
    LET i == FindIndex(s.cart, productId)
        c == [s.cart EXCEPT ![i].quantity = quantity]
    IN IF i = 0 THEN s
       ELSE IF quantity.n < 0 THEN RemoveProduct([s EXCEPT !.cart = c], productId)
       ELSE [cart |-> c, storage |-> SaveCart(s.storage, c), ui |-> UpdateCartUI(s.ui, c)]

\* updateQuantity
UpdateQuantity(s, productId, quantity) ==
    LET i == FindIndex(s.cart, productId)
        c == [s.cart EXCEPT ![i].quantity = quantity]
    IN IF i = 0 THEN s
       ELSE IF quantity.n <= 0 THEN RemoveProduct([s EXCEPT !.cart = c], productId)
       ELSE [cart |-> c, storage |-> SaveCart(s.storage, c), ui |-> UpdateCartUI(s.ui, c)]

\* a == b of JavaScript for identifiers: a number and a string are equal
\* when the string reads as that number
LooseEq(a, b) ==
    IF a.t = b.t THEN a = b
    ELSE IF a.t = "number" /\ b.t = "string" THEN ToString(a.n) = b.s
    ELSE IF a.t = "string" /\ b.t = "number" THEN a.s = ToString(b.n)
    ELSE FALSE

\* this.cart.find(i => i.id == productId): the index of the item found, or 0
FindLoose(c, productId) ==
    LET hits == {i \in 1..Len(c) : LooseEq(c[i].id, productId)}
    IN IF hits = {} THEN 0 ELSE CHOOSE i \in hits : \A j \in hits : i <= j

\* itemElement.dataset.id of a rendered row: always a string
DatasetId(row) == Str(row.dataId)

\* the click listener renderCartItems adds to the .remove-btn of a row
RemoveControl(s, r) == RemoveProduct(s, DatasetId(s.ui.rows[r]))

\* the click listener renderCartItems adds to the .quantity-btn's of a row
QuantityControl(s, r, isPlus) ==
    LET productId == DatasetId(s.ui.rows[r])
        i == FindLoose(s.cart, productId)
    IN IF i = 0 THEN s
       ELSE UpdateQuantity(s, s.cart[i].id,
                           Num(IF isPlus THEN s.cart[i].quantity.n + 1
                                         ELSE s.cart[i].quantity.n - 1))

\* The completion callback of the checkout timer.
CheckoutCompletion(s) ==
    [cart |-> <<>>, storage |-> SaveCart(s.storage, <<>>), ui |-> UpdateCartUI(s.ui, <<>>)]

(***************************************************************************)
(* ComponentLoader                                                         *)
(***************************************************************************)
Resources == {"head", "header", "footer"}
Components == {"header", "footer"}

Other(name) == IF name = "header" THEN "footer" ELSE "header"

\* What a fetch may come to: a successful response whose body is read ("ok"),
\* a response with a non-success status ("status"), a rejected fetch
\* ("reject"), a successful response whose body cannot be read ("body").
Outcomes == {"ok", "status", "reject", "body"}

\* The elements of components/head.html, a resource outside this file.
HeadHtml == <<"meta-charset", "meta-viewport", "title", "link-stylesheet">>

\* loadDefaultHead: the elements of the defaultHead markup
\* A catch block that only logs installs nothing.
NoDefaultHead == <<>>

DefaultHead == <<"meta-charset", "meta-viewport", "title", "meta-description",
                 "link-stylesheet", "style">>

\* the fallbacks table of showComponentFallback
Fallbacks == [header |-> "fallback-header", footer |-> "fallback-footer"]

\* The part of the document the component loads work on.
Dom == [mount |-> mount, spliced |-> spliced, inits |-> inits, ui |-> ui]

\* initHeader: the cart elements arrive with the header markup; the counter
\* is refreshed when window.cartManager is set.
InitHeader(d) ==
    [d EXCEPT !.ui = IF cm = "ready" THEN UpdateCartUI(MarkupUI, cart) ELSE MarkupUI]

\* initComponent
InitComponent(d, componentName) ==
    LET e == [d EXCEPT !.inits[componentName] = @ + 1]
    IN IF componentName = "header" THEN InitHeader(e) ELSE e

ShowComponentFallbackOuterHTML(d, componentName) ==
    IF d.mount[componentName].exists /\ componentName \in DOMAIN Fallbacks
    THEN [d EXCEPT !.mount[componentName] = [exists |-> FALSE, inner |-> ""]]
    ELSE d

\* showComponentFallback
ShowComponentFallback(d, componentName) ==
    IF d.mount[componentName].exists /\ componentName \in DOMAIN Fallbacks
    THEN [d EXCEPT !.mount[componentName].inner = Fallbacks[componentName]]
    ELSE d

\* initComponent called outside the test for the mount element
SpliceComponentInitAnyway(d, componentName) ==
    InitComponent(IF d.mount[componentName].exists
                  THEN [d EXCEPT !.mount[componentName] = [exists |-> FALSE, inner |-> ""],
                                 !.spliced[componentName] = TRUE]
                  ELSE d,
                  componentName)

\* loadComponent after response.text(): the mount is replaced by the markup
\* and the component initialised, or its absence is logged.
SpliceComponent(d, componentName) ==
    IF d.mount[componentName].exists
    THEN InitComponent([d EXCEPT !.mount[componentName] = [exists |-> FALSE, inner |-> ""],
                                 !.spliced[componentName] = TRUE],
                       componentName)
    ELSE d

\* initCheckout: the checkout button is part of the cart modal.
InitCheckout(d) == d.ui.exists

(***************************************************************************)
(* The header's widgets: the navigation menu and the cart modal.           *)
(***************************************************************************)
\* The menu and the modal as they come in the header markup: collapsed, hidden.
MarkupMenu == [expanded |-> "false", navActive |-> FALSE, toggleActive |-> FALSE]
MarkupModal == [ariaHidden |-> "true", display |-> "none", active |-> FALSE]

\* A toggle listener that forgets the class of the toggle itself.
MenuToggleListenerNavOnly(m) ==
    LET isExpanded == m.expanded = "true"
    IN [expanded |-> IF isExpanded THEN "false" ELSE "true",
        navActive |-> ~m.navActive,
        toggleActive |-> m.toggleActive]

\* the click listener initHeader adds to .menu-toggle
MenuToggleListener(m) ==
    LET isExpanded == m.expanded = "true"
    IN [expanded |-> IF isExpanded THEN "false" ELSE "true",
        navActive |-> ~m.navActive,
        toggleActive |-> ~m.toggleActive]

\* the click listener initHeader adds to every .nav-link
NavLinkListener(m) ==
    [expanded |-> "false", navActive |-> FALSE, toggleActive |-> FALSE]

\* The modal with its pending callbacks.
Widget == [modal |-> modal, timers |-> timers]

\* An open listener that clears the pending callbacks first (clearTimeout).
CartButtonListenerCancelling(w) ==
    [modal |-> [w.modal EXCEPT !.ariaHidden = "false", !.display = "flex"],
     timers |-> <<"show">>]

\* the click listener initCartModal adds to #cartButton
CartButtonListener(w) ==
    [modal |-> [w.modal EXCEPT !.ariaHidden = "false", !.display = "flex"],
     timers |-> Append(w.timers, "show")]

\* A close listener that leaves aria-hidden to the deferred callback.
ModalCloseListenerAriaLater(w) ==
    [modal |-> [w.modal EXCEPT !.active = FALSE],
     timers |-> Append(w.timers, "hide")]

\* the click listeners initCartModal adds to .modal-close and to the backdrop;
\* the completion of a checkout closes the modal the same way
ModalCloseListener(w) ==
    [modal |-> [w.modal EXCEPT !.ariaHidden = "true", !.active = FALSE],
     timers |-> Append(w.timers, "hide")]

\* the callback scheduled by the cart button's listener
ShowCallback(m) == [m EXCEPT !.active = TRUE]

\* the callback scheduled on closing
HideCallback(m) == [m EXCEPT !.display = "none"]

\* One click runs every listener added so far, in the order they were added.
RECURSIVE MenuToggleClicked(_, _)
MenuToggleClicked(m, listeners) ==
    IF listeners = 0 THEN m ELSE MenuToggleClicked(MenuToggleListener(m), listeners - 1)

RECURSIVE CartButtonClicked(_, _)
CartButtonClicked(w, listeners) ==
    IF listeners = 0 THEN w ELSE CartButtonClicked(CartButtonListener(w), listeners - 1)

RECURSIVE ModalCloseClicked(_, _)
ModalCloseClicked(w, listeners) ==
    IF listeners = 0 THEN w ELSE ModalCloseClicked(ModalCloseListener(w), listeners - 1)

\* Timers of equal delay fire in the order they were set, and a show
\* callback (10 ms) set before a hide callback (300 ms) fires before it.
\* The index of the callback of that kind that may fire next; 0 for none.
NextTimer(q, kind) ==
    LET hits == {i \in 1..Len(q) : q[i] = kind}
        first == CHOOSE i \in hits : \A j \in hits : i <= j
    IN IF hits = {} THEN 0
       ELSE IF kind = "hide" /\ first # 1 THEN 0
       ELSE first

RemoveAt(q, i) == [j \in 1..(Len(q) - 1) |-> IF j < i THEN q[j] ELSE q[j + 1]]

(***************************************************************************)
(* PathFixer.  Strings are sequences of characters, so that startsWith,    *)
(* substring and concatenation are what they are in the code.              *)
(***************************************************************************)
StartsWith(str, prefix) ==
    Len(str) >= Len(prefix) /\ SubSeq(str, 1, Len(prefix)) = prefix

Includes(str, part) ==
    \E i \in 1..(Len(str) + 1) : StartsWith(SubSeq(str, i, Len(str)), part)

\* str.substring(start), start counted from 0
Substring(str, start) == SubSeq(str, start + 1, Len(str))

SlashText == <<"/">>
PagesDirText == <<"/", "p", "a", "g", "e", "s", "/">>
PagesText == <<"p", "a", "g", "e", "s">>
DotSlashText == <<".", "/">>
IndexText == <<"i", "n", "d", "e", "x", ".", "h", "t", "m", "l">>
DotIndexText == DotSlashText \o IndexText
UpIndexText == <<".", ".", "/">> \o IndexText
HttpText == <<"h", "t", "t", "p">>
HashText == <<"#">>
MailtoText == <<"m", "a", "i", "l", "t", "o", ":">>
TelText == <<"t", "e", "l", ":">>

IsInPages(loc) == Includes(loc.pathname, PagesDirText)

\* the callback of fixFileProtocolPaths for each <a>: the href it leaves
FixLink(originalHref, isInPages) ==
    IF originalHref = <<>> THEN originalHref
    ELSE IF \/ StartsWith(originalHref, HttpText)
            \/ StartsWith(originalHref, HashText)
            \/ StartsWith(originalHref, MailtoText)
            \/ StartsWith(originalHref, TelText)
    THEN originalHref
    ELSE IF StartsWith(originalHref, SlashText)
    THEN IF originalHref = SlashText
         THEN IF isInPages THEN UpIndexText ELSE IndexText
         ELSE IF StartsWith(originalHref, PagesDirText)
         THEN IF isInPages
              THEN Substring(originalHref, 6)
              ELSE PagesText \o Substring(originalHref, 5)
         ELSE originalHref
    ELSE IF StartsWith(originalHref, DotSlashText) /\ isInPages
    THEN IF originalHref \in {DotSlashText, DotIndexText}
         THEN UpIndexText
         ELSE originalHref
    ELSE originalHref

\* the callback for each <link href> and <script src>: the url it leaves
FixResource(originalUrl, isInPages) ==
    IF originalUrl # <<>> /\ StartsWith(originalUrl, SlashText)
    THEN IF isInPages THEN <<".", ".">> \o originalUrl ELSE <<".">> \o originalUrl
    ELSE originalUrl

\* The hrefs of the documents: none (or empty), the site root, pages of the
\* pages/ directory and of the root, relative ones, and the kinds left alone.
Hrefs ==
    { <<>>,
      SlashText,
      PagesDirText \o <<"p", ".", "h", "t", "m", "l">>,
      <<"/", "q", ".", "h", "t", "m", "l">>,
      DotSlashText,
      DotIndexText,
      <<"q", ".", "h", "t", "m", "l">>,
      HttpText \o <<"s", ":", "/", "/", "x">>,
      HashText \o <<"t">>,
      MailtoText \o <<"x">>,
      TelText \o <<"1">> }

Urls ==
    { <<"/", "a", ".", "c", "s", "s">>,
      <<"a", ".", "j", "s">>,
      HttpText \o <<"s", ":", "/", "/", "x">> }

Pathnames ==
    { <<"/", "s", "/">> \o IndexText,
      <<"/", "s">> \o PagesDirText \o <<"p", ".", "h", "t", "m", "l">> }

SeqsUpTo(S, n) == UNION {[1..k -> S] : k \in 0..n}

(***************************************************************************)
(* The initial state: the script has been loaded into a page.              *)
(***************************************************************************)
MountsOf(pg) == [n \in Components |-> [exists |-> pg.mounts[n], inner |-> ""]]

PageStart(pg) ==
    /\ cm = "none"
    /\ cart = <<>>
    /\ ui = NoUI
    /\ pending = 0
    /\ checkoutBound = FALSE
    /\ pc = "start"
    /\ fetchSt = [r \in Resources |-> "idle"]
    /\ head = <<>>
    /\ mount = MountsOf(pg)
    /\ spliced = [n \in Components |-> FALSE]
    /\ inits = [n \in Components |-> 0]
    /\ catalog = "none"
    /\ menu = MarkupMenu
    /\ modal = MarkupModal
    /\ timers = <<>>

\* The path fixer is not called and the document's links are left out.
NoPaths ==
    /\ location = [protocol |-> "http:", pathname |-> <<"/">>]
    /\ links = <<>>
    /\ resources = <<>>
    /\ fixed = FALSE

NoOp(name) == [op |-> name, id |-> Undefined, q |-> Undefined, found |-> FALSE]

Pages == [mounts : [Components -> BOOLEAN], featured : BOOLEAN]

\* A document with its links and resources, at the site root or in pages/,
\* opened from a file or served.
InitPaths ==
    /\ storage = Missing
    /\ page = [mounts |-> [n \in Components |-> TRUE], featured |-> TRUE]
    /\ net = [r \in Resources |-> "ok"]
    /\ PageStart(page)
    /\ location \in [protocol : {"file:", "http:"}, pathname : Pathnames]
    /\ links \in SeqsUpTo(Hrefs, MaxLinks)
    /\ resources \in SeqsUpTo(Urls, MaxResources)
    /\ fixed = FALSE
    /\ lastOp = NoOp("load")

\* A page with both mount points, served with the head and the footer
\* fragment; the header fragment may fail.
Init ==
    /\ storage \in {Missing, Corrupt}
    /\ page = [mounts |-> [n \in Components |-> TRUE], featured |-> TRUE]
    /\ net \in {[head |-> "ok", header |-> o, footer |-> "ok"] : o \in {"ok", "reject"}}
    /\ PageStart(page)
    /\ NoPaths
    /\ lastOp = NoOp("load")

\* Any page, any server.
InitLoader ==
    /\ storage \in {Missing, Corrupt}
    /\ page \in Pages
    /\ net \in [Resources -> Outcomes]
    /\ PageStart(page)
    /\ NoPaths
    /\ lastOp = NoOp("load")

(***************************************************************************)
(* App.init and the loads it starts                                        *)
(***************************************************************************)
ConstructWithoutAwait ==
    /\ pc = "start"
    /\ ~ConstructorThrows(storage)
    /\ cm' = "ready"
    /\ cart' = ConstructedCart(storage)
    /\ pc' = "loadHead"
    /\ fetchSt' = [r \in Resources |-> "fetching"]
    /\ lastOp' = NoOp("construct")
    /\ UNCHANGED <<storage, ui, pending, checkoutBound, net, page, head, mount,
                   spliced, inits>>
    /\ UNCHANGED <<catalog, widgetVars, pathVars>>

\* App.init up to its first suspension: the store is constructed, then
\* loadAllComponents and loadHead run up to the fetch of the head fragment.
\* A throwing constructor is caught by App.init, which stops there.
Construct ==
    /\ pc = "start"
    /\ IF ConstructorThrows(storage)
       THEN /\ cm' = "failed"
            /\ pc' = "failed"
            /\ UNCHANGED <<cart, fetchSt>>
       ELSE /\ cm' = "ready"
            /\ cart' = ConstructedCart(storage)
            /\ pc' = "loadHead"
            /\ fetchSt' = [fetchSt EXCEPT !["head"] = "fetching"]
    /\ lastOp' = NoOp("construct")
    /\ UNCHANGED <<storage, ui, pending, checkoutBound, net, page, head, mount,
                   spliced, inits>>
    /\ UNCHANGED <<catalog, widgetVars, pathVars>>

\* loadHead ends, with the fragment's elements or with the default ones;
\* loadAllComponents goes on to call loadComponent for the header and for the
\* footer, each of which runs up to its fetch.
HeadLoaded(elements) ==
    /\ head' = head \o elements
    /\ fetchSt' = [fetchSt EXCEPT !["head"] = "done",
                                  !["header"] = "fetching",
                                  !["footer"] = "fetching"]
    /\ pc' = "loadComponents"

\* The fetch of head.html settles.
HeadFetchSettle ==
    /\ fetchSt["head"] = "fetching"
    /\ IF net["head"] \in {"ok", "body"}
       THEN /\ fetchSt' = [fetchSt EXCEPT !["head"] = "reading"]
            /\ UNCHANGED <<head, pc>>
       ELSE HeadLoaded(DefaultHead)
    /\ lastOp' = NoOp("headFetch")
    /\ UNCHANGED <<cartVars, net, page, mount, spliced, inits>>
    /\ UNCHANGED <<catalog, widgetVars, pathVars>>

\* response.text() of head.html settles.
HeadBodySettle ==
    /\ fetchSt["head"] = "reading"
    /\ IF net["head"] = "ok" THEN HeadLoaded(HeadHtml) ELSE HeadLoaded(DefaultHead)
    /\ lastOp' = NoOp("headBody")
    /\ UNCHANGED <<cartVars, net, page, mount, spliced, inits>>
    /\ UNCHANGED <<catalog, widgetVars, pathVars>>

\* Promise.race in place of Promise.all: the first load to end resumes App.init.
ComponentLoadedRace(name, d) ==
    /\ mount' = d.mount
    /\ spliced' = d.spliced
    /\ inits' = d.inits
    /\ ui' = d.ui
    /\ fetchSt' = [fetchSt EXCEPT ![name] = "done"]
    /\ IF page.featured
       THEN pc' = "catalog" /\ catalog' = "loading" /\ UNCHANGED checkoutBound
       ELSE pc' = "running" /\ checkoutBound' = InitCheckout(d) /\ UNCHANGED catalog

\* loadFeaturedProducts called without await: initCheckout runs at once.
ComponentLoadedNoAwaitCatalog(name, d) ==
    /\ mount' = d.mount
    /\ spliced' = d.spliced
    /\ inits' = d.inits
    /\ ui' = d.ui
    /\ fetchSt' = [fetchSt EXCEPT ![name] = "done"]
    /\ IF fetchSt[Other(name)] = "done"
       THEN /\ pc' = "running"
            /\ catalog' = IF page.featured THEN "loading" ELSE catalog
            /\ checkoutBound' = InitCheckout(d)
       ELSE UNCHANGED <<pc, checkoutBound, catalog>>

\* loadComponent(name) ends with the document as d.  When the other load has
\* ended too, Promise.all resolves and App.init goes on: to the catalogue,
\* which waits for its timer, or straight to initCheckout.
ComponentLoaded(name, d) ==
    /\ mount' = d.mount
    /\ spliced' = d.spliced
    /\ inits' = d.inits
    /\ ui' = d.ui
    /\ fetchSt' = [fetchSt EXCEPT ![name] = "done"]
    /\ IF fetchSt[Other(name)] = "done"
       THEN IF page.featured
            THEN pc' = "catalog" /\ catalog' = "loading" /\ UNCHANGED checkoutBound
            ELSE pc' = "running" /\ checkoutBound' = InitCheckout(d) /\ UNCHANGED catalog
       ELSE UNCHANGED <<pc, checkoutBound, catalog>>

\* The fetch of a component's markup settles.
ComponentFetchSettle(name) ==
    /\ fetchSt[name] = "fetching"
    /\ IF net[name] \in {"ok", "body"}
       THEN /\ fetchSt' = [fetchSt EXCEPT ![name] = "reading"]
            /\ UNCHANGED <<mount, spliced, inits, ui, pc, checkoutBound, catalog>>
       ELSE ComponentLoaded(name, ShowComponentFallback(Dom, name))
    /\ lastOp' = [NoOp("componentFetch") EXCEPT !.id = Str(name)]
    /\ UNCHANGED <<storage, cm, cart, pending, net, page, head>>
    /\ UNCHANGED <<widgetVars, pathVars>>

\* response.text() of a component's markup settles.
ComponentBodySettle(name) ==
    /\ fetchSt[name] = "reading"
    /\ IF net[name] = "ok"
       THEN ComponentLoaded(name, SpliceComponent(Dom, name))
       ELSE ComponentLoaded(name, ShowComponentFallback(Dom, name))
    /\ lastOp' = [NoOp("componentBody") EXCEPT !.id = Str(name)]
    /\ UNCHANGED <<storage, cm, cart, pending, net, page, head>>
    /\ UNCHANGED <<widgetVars, pathVars>>

\* The timer of getMockProducts fires: the cards are rendered, and App.init
\* goes on to initCheckout.
CatalogTimer ==
    /\ pc = "catalog"
    /\ pc' = "running"
    /\ catalog' = "rendered"
    /\ checkoutBound' = InitCheckout(Dom)
    /\ lastOp' = NoOp("catalog")
    /\ UNCHANGED <<storage, cm, cart, ui, pending, net, page, loadVars>>
    /\ UNCHANGED <<widgetVars, pathVars>>

(***************************************************************************)
(* Cart operations, called once the page is up and while no transition of  *)
(* the modal is pending.                                                   *)
(***************************************************************************)
InRange(c) == \A i \in 1..Len(c) : c[i].quantity.n \in QuantityRange

StoreBecomes(s) ==
    /\ cart' = s.cart
    /\ storage' = s.storage
    /\ ui' = s.ui

CallAddProduct ==
    /\ pc = "running"
    /\ timers = <<>>
    /\ \E p \in Products, q \in AddQuantities :
          LET s == AddProduct(Store, [id |-> p.id, name |-> p.name,
                                      price |-> p.price, quantity |-> q])
          IN /\ InRange(s.cart)
             /\ StoreBecomes(s)
             /\ lastOp' = [op |-> "add", id |-> p.id, q |-> q,
                           found |-> FindIndex(cart, p.id) # 0]
    /\ UNCHANGED <<cm, pending, checkoutBound, pc, net, page, loadVars>>
    /\ UNCHANGED <<catalog, widgetVars, pathVars>>

CallRemoveProduct ==
    /\ pc = "running"
    /\ timers = <<>>
    /\ \E id \in Identifiers :
          /\ StoreBecomes(RemoveProduct(Store, id))
          /\ lastOp' = [op |-> "remove", id |-> id, q |-> Undefined,
                        found |-> FindIndex(cart, id) # 0]
    /\ UNCHANGED <<cm, pending, checkoutBound, pc, net, page, loadVars>>
    /\ UNCHANGED <<catalog, widgetVars, pathVars>>

CallUpdateQuantity ==
    /\ pc = "running"
    /\ timers = <<>>
    /\ \E id \in Identifiers, q \in SetQuantities :
          /\ StoreBecomes(UpdateQuantity(Store, id, q))
          /\ lastOp' = [op |-> "setQuantity", id |-> id, q |-> q,
                        found |-> FindIndex(cart, id) # 0]
    /\ UNCHANGED <<cm, pending, checkoutBound, pc, net, page, loadVars>>
    /\ UNCHANGED <<catalog, widgetVars, pathVars>>

\* The click listener of #checkoutBtn: an empty cart is refused, otherwise
\* the completion is scheduled.
CheckoutClick ==
    /\ pc = "running"
    /\ timers = <<>>
    /\ checkoutBound
    /\ IF cm # "ready" \/ Len(cart) = 0
       THEN UNCHANGED pending
       ELSE pending < MaxPending /\ pending' = pending + 1
    /\ lastOp' = NoOp("checkoutClick")
    /\ UNCHANGED <<storage, cm, cart, ui, checkoutBound, pc, net, page, loadVars>>
    /\ UNCHANGED <<catalog, widgetVars, pathVars>>

\* The completion timer of a checkout fires.
CheckoutTimer ==
    /\ pending > 0
    /\ pending' = pending - 1
    /\ StoreBecomes(CheckoutCompletion(Store))
    /\ IF spliced["header"]
       THEN LET w == ModalCloseListener(Widget)
            IN modal' = w.modal /\ timers' = w.timers
       ELSE UNCHANGED <<modal, timers>>
    /\ lastOp' = NoOp("checkoutDone")
    /\ UNCHANGED <<cm, checkoutBound, pc, net, page, loadVars, catalog, menu, pathVars>>

\* The page is loaded again: the script starts over, localStorage stays.
Reload ==
    /\ pc \in {"running", "failed"}
    /\ cm' = "none"
    /\ cart' = <<>>
    /\ ui' = NoUI
    /\ pending' = 0
    /\ checkoutBound' = FALSE
    /\ pc' = "start"
    /\ fetchSt' = [r \in Resources |-> "idle"]
    /\ head' = <<>>
    /\ mount' = MountsOf(page)
    /\ spliced' = [n \in Components |-> FALSE]
    /\ inits' = [n \in Components |-> 0]
    /\ catalog' = "none"
    /\ menu' = MarkupMenu
    /\ modal' = MarkupModal
    /\ timers' = <<>>
    /\ lastOp' = NoOp("load")
    /\ UNCHANGED <<storage, net, page, pathVars>>

\* A show callback of the modal fires.
ShowTimer ==
    /\ NextTimer(timers, "show") # 0
    /\ modal' = ShowCallback(modal)
    /\ timers' = RemoveAt(timers, NextTimer(timers, "show"))
    /\ lastOp' = NoOp("showTimer")
    /\ UNCHANGED <<cartVars, pc, net, page, loadVars, catalog, menu, pathVars>>

\* A hide callback of the modal fires.
HideTimer ==
    /\ NextTimer(timers, "hide") # 0
    /\ modal' = HideCallback(modal)
    /\ timers' = RemoveAt(timers, NextTimer(timers, "hide"))
    /\ lastOp' = NoOp("hideTimer")
    /\ UNCHANGED <<cartVars, pc, net, page, loadVars, catalog, menu, pathVars>>

(***************************************************************************)
(* The header's widgets in use.  ComponentLoader is exported on a          *)
(* development host, so initHeader can be called again on the same         *)
(* document; every call adds a fresh listener to each element.             *)
(***************************************************************************)
\* The listeners on each of the header's elements: one per run of initHeader.
Listeners == inits["header"]

\* ComponentLoader.initHeader() called on the document it has initialised.
CallInitHeader ==
    /\ spliced["header"]
    /\ inits["header"] < MaxInits
    /\ inits' = [inits EXCEPT !["header"] = @ + 1]
    /\ ui' = IF cm = "ready" THEN UpdateCartUI(ui, cart) ELSE ui
    /\ lastOp' = NoOp("initHeader")
    /\ UNCHANGED <<storage, cm, cart, pending, checkoutBound, pc, net, page,
                   fetchSt, head, mount, spliced, catalog, widgetVars, pathVars>>

\* A click on .menu-toggle.
MenuToggleClick ==
    /\ spliced["header"]
    /\ menu' = MenuToggleClicked(menu, Listeners)
    /\ lastOp' = NoOp("menuToggle")
    /\ UNCHANGED <<cartVars, pc, net, page, loadVars, catalog, modal, timers, pathVars>>

\* A click on a .nav-link; its listeners all do the same.
NavLinkClick ==
    /\ spliced["header"]
    /\ menu' = NavLinkListener(menu)
    /\ lastOp' = NoOp("navLink")
    /\ UNCHANGED <<cartVars, pc, net, page, loadVars, catalog, modal, timers, pathVars>>

\* A click on #cartButton.
CartButtonClick ==
    /\ spliced["header"]
    /\ Len(timers) + Listeners <= MaxTimers
    /\ LET w == CartButtonClicked(Widget, Listeners)
       IN modal' = w.modal /\ timers' = w.timers
    /\ ui' = IF cm = "ready" THEN UpdateCartUI(ui, cart) ELSE ui
    /\ lastOp' = NoOp("cartButton")
    /\ UNCHANGED <<storage, cm, cart, pending, checkoutBound, pc, net, page,
                   loadVars, catalog, menu, pathVars>>

\* A click on .modal-close, or on the backdrop of the modal.
ModalCloseClick ==
    /\ spliced["header"]
    /\ Len(timers) + Listeners <= MaxTimers
    /\ LET w == ModalCloseClicked(Widget, Listeners)
       IN modal' = w.modal /\ timers' = w.timers
    /\ lastOp' = NoOp("modalClose")
    /\ UNCHANGED <<cartVars, pc, net, page, loadVars, catalog, menu, pathVars>>

NextHeader ==
    \/ Construct
    \/ HeadFetchSettle
    \/ HeadBodySettle
    \/ \E name \in Components : ComponentFetchSettle(name)
    \/ \E name \in Components : ComponentBodySettle(name)
    \/ CatalogTimer
    \/ CallInitHeader
    \/ MenuToggleClick
    \/ NavLinkClick
    \/ CartButtonClick
    \/ ModalCloseClick
    \/ ShowTimer
    \/ HideTimer

(***************************************************************************)
(* PathFixer.init, which a page calls once its markup is there.            *)
(***************************************************************************)
PathFixerInit ==
    /\ ~fixed
    /\ fixed' = TRUE
    /\ IF location.protocol = "file:"
       THEN /\ links' = [i \in DOMAIN links |-> FixLink(links[i], IsInPages(location))]
            /\ resources' = [i \in DOMAIN resources |->
                                FixResource(resources[i], IsInPages(location))]
       ELSE UNCHANGED <<links, resources>>
    /\ lastOp' = NoOp("pathFixer")
    /\ UNCHANGED <<cartVars, pc, net, page, loadVars, catalog, widgetVars, location>>

NextPaths == PathFixerInit

(***************************************************************************)
(* The controls of the rows rendered in the modal.  Row r was rendered     *)
(* from the r-th line item; lastOp names that item.                        *)
(***************************************************************************)
ClickRemove ==
    /\ pc = "running"
    /\ timers = <<>>
    /\ ui.exists
    /\ \E r \in 1..Len(ui.rows) :
          /\ StoreBecomes(RemoveControl(Store, r))
          /\ lastOp' = [op |-> "clickRemove", id |-> cart[r].id, q |-> Num(r),
                        found |-> TRUE]
    /\ UNCHANGED <<cm, pending, checkoutBound, pc, net, page, loadVars>>
    /\ UNCHANGED <<catalog, widgetVars, pathVars>>

ClickQuantity ==
    /\ pc = "running"
    /\ timers = <<>>
    /\ ui.exists
    /\ \E r \in 1..Len(ui.rows), isPlus \in BOOLEAN :
          LET s == QuantityControl(Store, r, isPlus)
          IN /\ InRange(s.cart)
             /\ StoreBecomes(s)
             /\ lastOp' = [op |-> IF isPlus THEN "clickPlus" ELSE "clickMinus",
                           id |-> cart[r].id, q |-> Num(r), found |-> TRUE]
    /\ UNCHANGED <<cm, pending, checkoutBound, pc, net, page, loadVars>>
    /\ UNCHANGED <<catalog, widgetVars, pathVars>>

NextControls ==
    \/ Construct
    \/ HeadFetchSettle
    \/ HeadBodySettle
    \/ \E name \in Components : ComponentFetchSettle(name)
    \/ \E name \in Components : ComponentBodySettle(name)
    \/ CatalogTimer
    \/ CallAddProduct
    \/ ClickRemove
    \/ ClickQuantity

NextLoader ==
    \/ Construct
    \/ HeadFetchSettle
    \/ HeadBodySettle
    \/ \E name \in Components : ComponentFetchSettle(name)
    \/ \E name \in Components : ComponentBodySettle(name)
    \/ CatalogTimer

Next ==
    \/ NextLoader
    \/ CallAddProduct
    \/ CallRemoveProduct
    \/ CallUpdateQuantity
    \/ CheckoutClick
    \/ CheckoutTimer
    \/ HideTimer
    \/ Reload

Spec == Init /\ [][Next]_vars

SpecLoader == InitLoader /\ [][NextLoader]_vars

SpecHeader == Init /\ [][NextHeader]_vars

SpecPaths == InitPaths /\ [][NextPaths]_vars

SpecControls == Init /\ [][NextControls]_vars

(***************************************************************************)
(* Properties                                                              *)
(***************************************************************************)
Ready == cm = "ready"

QuantityOf(c, id) == c[FindIndex(c, id)].quantity.n

Without(c, id) == SelectSeq(c, LAMBDA item : item.id # id)

SumQuantities(c) == SumSeq([i \in 1..Len(c) |-> c[i].quantity.n])

SumPrices(c) == SumSeq([i \in 1..Len(c) |-> c[i].price.n * c[i].quantity.n])

\* the amount of cents a displayed total stands for
Cents(shown) == (IF shown.neg THEN -1 ELSE 1) * (shown.int * 100 + shown.frac)

OneLinePerIdentifier ==
    \A i, j \in 1..Len(cart) : cart[i].id = cart[j].id => i = j

\* C1: starting from an empty cart the cart holds at most one line item per
\* identifier, and an add of an identifier that is present leaves the number
\* of line items as it is and raises that item's quantity by the added
\* quantity (1 when the product carries none).
C1_AddSumsQuantities ==
    /\ [](Ready => OneLinePerIdentifier)
    /\ [][(lastOp'.op = "add" /\ lastOp'.found) =>
             /\ Len(cart') = Len(cart)
             /\ QuantityOf(cart', lastOp'.id) = QuantityOf(cart, lastOp'.id)
                    + (IF lastOp'.q = Undefined THEN 1 ELSE lastOp'.q.n)]_vars

\* The part of C1 the code keeps: at most one line item per identifier, and
\* an add of a present identifier raises its quantity by the added quantity,
\* an absent or zero quantity counting as 1.
AddSumsQuantitiesZeroAsOne ==
    /\ [](Ready => OneLinePerIdentifier)
    /\ [][(lastOp'.op = "add" /\ lastOp'.found) =>
             /\ Len(cart') = Len(cart)
             /\ QuantityOf(cart', lastOp'.id) = QuantityOf(cart, lastOp'.id)
                    + (IF lastOp'.q \in {Undefined, Num(0)} THEN 1 ELSE lastOp'.q.n)]_vars

\* C2: setQuantity(id, q) on a cart holding id: for q <= 0 the line item is
\* gone, the other items stay, and the displayed count and total are those
\* of the remaining items; for q >= 1 the item's quantity is q and nothing
\* else in the list changes.
C2_SetQuantity ==
    [][(lastOp'.op = "setQuantity" /\ lastOp'.found) =>
          LET id == lastOp'.id
              q == lastOp'.q.n
          IN IF q <= 0
             THEN /\ FindIndex(cart', id) = 0
                  /\ cart' = Without(cart, id)
                  /\ ui'.exists => /\ ui'.count = SumQuantities(Without(cart, id))
                                   /\ Cents(ui'.total) = SumPrices(Without(cart, id))
             ELSE /\ Len(cart') = Len(cart)
                  /\ \A i \in 1..Len(cart) :
                        IF cart[i].id = id /\ i = FindIndex(cart, id)
                        THEN cart'[i] = [cart[i] EXCEPT !.quantity = Num(q)]
                        ELSE cart'[i] = cart[i]]_vars

C2_Witness ==
    /\ lastOp.op = "setQuantity"
    /\ lastOp.found
    /\ lastOp.q.n <= 0
    /\ ui.exists
    /\ Len(cart) >= 1

\* C3: between operations every line item of the store has quantity >= 1.
C3_QuantityAtLeastOne ==
    Ready => \A i \in 1..Len(cart) : cart[i].quantity.n >= 1

\* C4: constructing the store never raises an error, and with the key
\* missing or unparsable the constructed store has an empty cart.
C4_ConstructionNeverThrows ==
    lastOp.op = "construct" =>
        /\ cm = "ready"
        /\ storage \in {Missing, Corrupt} => cart = <<>>

\* C5: a store constructed from the snapshot that persist writes for the
\* cart holds the same line items, with the same fields, in the same order.
C5_RoundTrip ==
    Ready => /\ ~ConstructorThrows(SaveCart(storage, cart))
             /\ ConstructedCart(SaveCart(storage, cart)) = cart

\* a store constructed from a snapshot of two line items
C5_Witness ==
    /\ lastOp.op = "construct"
    /\ Ready
    /\ Len(cart) >= 2
    /\ storage = SaveCart(storage, cart)

\* C6: between operations the stored snapshot is the text of the in-memory
\* list; a missing key stands for the empty list.
C6_StorageMirrorsCart ==
    Ready => \/ storage = Text(JSONstringify(cart))
             \/ storage = Missing /\ cart = <<>>

C6_Witness ==
    /\ lastOp.op = "setQuantity"
    /\ lastOp.found
    /\ lastOp.q.n >= 1
    /\ Len(cart) >= 2
    /\ storage = Text(JSONstringify(cart))

\* C7: remove and setQuantity with an identifier no line item has leave the
\* list as it is.
C7_AbsentIdentifierNoOp ==
    [][(lastOp'.op \in {"remove", "setQuantity"} /\ ~lastOp'.found) =>
          cart' = cart]_vars

C7_Witness ==
    /\ lastOp.op = "remove"
    /\ ~lastOp.found
    /\ lastOp.id = Num(99)
    /\ Len(cart) >= 2

\* C8: whenever the cart elements exist, the displayed count is the sum of
\* the quantities and the displayed total the sum of price x quantity; for
\* an empty cart they are 0 and 0.00 and the badge is hidden.
C8_DisplayedTotals ==
    (ui.exists /\ Ready) =>
        /\ ui.count = SumQuantities(cart)
        /\ Cents(ui.total) = SumPrices(cart)
        /\ ui.total.frac \in 0..99
        /\ cart = <<>> => /\ ui.count = 0
                          /\ ui.total = [neg |-> FALSE, int |-> 0, frac |-> 0]
                          /\ ui.display = "none"

C8_Witness ==
    /\ ui.exists
    /\ lastOp.op = "add"
    /\ Len(cart) >= 2
    /\ ui.count = 3

\* C9: no fetch of the header or footer fragment is started before the head
\* load, with its fallback, has completed.
C9_HeadBeforeComponents ==
    (\E name \in Components : fetchSt[name] # "idle") =>
        /\ fetchSt["head"] = "done"
        /\ head \in {HeadHtml, DefaultHead}

\* the footer load has completed while the header load has not
C9_Witness ==
    /\ fetchSt["footer"] = "done"
    /\ fetchSt["header"] \in {"fetching", "reading"}
    /\ head = DefaultHead

\* the other order: the header load has completed while the footer load has not
HeaderBeforeFooter ==
    /\ fetchSt["header"] = "done"
    /\ fetchSt["footer"] \in {"fetching", "reading"}

\* C10: when the load of the header or footer has ended after a failed fetch
\* or a non-success status, with the mount in the page, the mount is still
\* there and holds the fallback markup of that component.
C10_FallbackInMount ==
    \A name \in Components :
        (fetchSt[name] = "done" /\ net[name] \in {"status", "reject"}
            /\ page.mounts[name]) =>
                /\ mount[name].exists
                /\ mount[name].inner = Fallbacks[name]

C10_Witness ==
    /\ fetchSt["header"] = "done"
    /\ net["header"] = "status"
    /\ page.mounts["header"]
    /\ mount["header"] = [exists |-> TRUE, inner |-> "fallback-header"]

(***************************************************************************)
(* The loader.                                                             *)
(***************************************************************************)
Elements(seq) == {seq[i] : i \in 1..Len(seq)}

HeadFailed == net["head"] # "ok"

\* C11: whenever the load of the head fragment fails (the fetch rejects, the
\* status is not successful, or the body cannot be read), the default head
\* elements are installed: once loadHead has ended the head is not empty and
\* holds a title and a viewport meta element; and the error is not propagated:
\* loadAllComponents goes on to start the header and the footer loads.
C11_HeadFallback ==
    (fetchSt["head"] = "done" /\ HeadFailed) =>
        /\ head # <<>>
        /\ {"title", "meta-viewport"} \subseteq Elements(head)
        /\ head = DefaultHead
        /\ pc # "failed"
        /\ \A n \in Components : fetchSt[n] # "idle"

C11_Witness ==
    /\ fetchSt["head"] = "done"
    /\ net["head"] = "status"
    /\ lastOp.op = "headFetch"

\* C12: loadComponent calls initComponent exactly once, and only with the
\* mount element replaced by the fetched markup; on every other path (fetch
\* error, non-success status, unreadable body, missing mount element)
\* initComponent is never called and no fetched markup is spliced in.
C12_InitOnceAfterSplice ==
    \A n \in Components :
        /\ inits[n] <= 1
        /\ inits[n] = 1 <=> spliced[n]
        /\ spliced[n] =>
              /\ net[n] = "ok"
              /\ page.mounts[n]
              /\ ~mount[n].exists
              /\ fetchSt[n] = "done"
        /\ fetchSt[n] = "done" =>
              IF net[n] = "ok" /\ page.mounts[n]
              THEN inits[n] = 1
              ELSE inits[n] = 0 /\ ~spliced[n]

C12_Witness ==
    /\ lastOp = [NoOp("componentBody") EXCEPT !.id = Str("header")]
    /\ spliced["header"]
    /\ inits["header"] = 1
    /\ fetchSt["footer"] = "done"
    /\ ~page.mounts["footer"]
    /\ inits["footer"] = 0

\* The mount of a component once its load has ended: replaced by the markup,
\* holding the fallback, or absent from the start.
EndedMount(n) ==
    IF page.mounts[n] /\ net[n] # "ok"
    THEN [exists |-> TRUE, inner |-> Fallbacks[n]]
    ELSE [exists |-> FALSE, inner |-> ""]

LoadAllCompleted == pc \in {"catalog", "running"}

\* C13: for every combination of outcomes of the header and footer fetches
\* and every order in which they settle, each load reaches its own outcome
\* (spliced and initialised, or fallback), fixed by its own fetch and mount
\* alone and untouched by the steps of the other load; loadAllComponents
\* completes only after both loads have ended, and has completed as soon as
\* both have.
C13_LoadsIndependent ==
    /\ [](\A n \in Components :
            /\ fetchSt[n] = "done" =>
                  /\ mount[n] = EndedMount(n)
                  /\ spliced[n] = (page.mounts[n] /\ net[n] = "ok")
                  /\ inits[n] = IF spliced[n] THEN 1 ELSE 0
            /\ fetchSt[n] # "done" =>
                  /\ mount[n] = MountsOf(page)[n]
                  /\ ~spliced[n]
                  /\ inits[n] = 0)
    /\ [](LoadAllCompleted <=> \A n \in Components : fetchSt[n] = "done")
    /\ [][\A n \in Components :
            lastOp' \in {[NoOp(o) EXCEPT !.id = Str(n)] : o \in {"componentFetch", "componentBody"}}
            => /\ mount'[Other(n)] = mount[Other(n)]
               /\ spliced'[Other(n)] = spliced[Other(n)]
               /\ inits'[Other(n)] = inits[Other(n)]
               /\ fetchSt'[Other(n)] = fetchSt[Other(n)]]_vars

\* The footer ended with its fallback first, the header was spliced after it.
C13_Witness ==
    /\ LoadAllCompleted
    /\ lastOp = [NoOp("componentBody") EXCEPT !.id = Str("header")]
    /\ spliced["header"]
    /\ net["footer"] = "reject"
    /\ mount["footer"].inner = Fallbacks["footer"]

(***************************************************************************)
(* App.init.                                                               *)
(***************************************************************************)
\* App.init is past loadAllComponents with every load ended.
FragmentsLoaded == \A r \in Resources : fetchSt[r] = "done"

\* C14: every failure is contained locally: under any combination of failed
\* fragment fetches, missing mounts and an unparsable stored cart, App.init
\* never stops short: once it has started, a store exists (with an empty cart
\* when the stored text was unparsable) and the loading of the fragments is
\* under way, and it has ended, with the catalogue rendered on a page that
\* has one, when App.init is over.
C14_FailuresContained ==
    /\ pc # "failed"
    /\ pc # "start" =>
          /\ cm = "ready"
          /\ storage = Corrupt => cart = <<>>
          /\ fetchSt["head"] # "idle"
    /\ pc = "running" =>
          /\ FragmentsLoaded
          /\ page.featured => catalog = "rendered"

\* With a stored cart that can be read, no failure of a fetch and no missing
\* mount stops App.init.
FetchFailuresContained == storage # Corrupt => C14_FailuresContained

\* C15: in every run of App.init the store is constructed before any
\* fragment fetch starts; loadAllComponents (head, header, footer) has
\* completed before the rendering of the catalogue starts; and the checkout
\* binding is installed only when App.init is over, after the catalogue has
\* been rendered.  Hence the store exists whenever the header initialiser
\* has run or the add-to-cart buttons exist.
C15_StartupOrder ==
    /\ (\E r \in Resources : fetchSt[r] # "idle") => cm = "ready"
    /\ catalog # "none" => FragmentsLoaded
    /\ catalog = "loading" <=> pc = "catalog"
    /\ checkoutBound =>
          /\ pc = "running"
          /\ page.featured => catalog = "rendered"
    /\ inits["header"] > 0 => cm = "ready"
    /\ catalog = "rendered" => cm = "ready"

C15_Witness ==
    /\ lastOp.op = "catalog"
    /\ catalog = "rendered"
    /\ checkoutBound
    /\ inits["header"] = 1

(***************************************************************************)
(* The header's widgets.                                                   *)
(***************************************************************************)
\* C16: the header initialisation is idempotent: however often it has run
\* on the document, the page behaves as after one run: one click on the
\* navigation toggle flips the menu exactly once (the effect of one
\* listener), and one click on the cart button opens the modal once.
C16_InitHeaderIdempotent ==
    [][/\ lastOp'.op = "menuToggle" =>
            /\ menu' = MenuToggleListener(menu)
            /\ menu'.expanded # menu.expanded
       /\ lastOp'.op = "cartButton" =>
            /\ modal' = CartButtonListener(Widget).modal
            /\ modal'.ariaHidden = "false"
            /\ modal'.display = "flex"]_vars

\* The part of C16 that does hold after any number of runs: the cart button
\* opens the modal, and a nav link collapses the menu.
CartButtonStillOpens ==
    [][/\ lastOp'.op = "cartButton" =>
            /\ modal' = CartButtonListener(Widget).modal
            /\ modal'.ariaHidden = "false"
            /\ modal'.display = "flex"
       /\ lastOp'.op = "navLink" => menu' = MarkupMenu]_vars

\* After two runs a click on the toggle changes nothing.
ToggleClickLost ==
    [][(lastOp'.op = "menuToggle" /\ Listeners = 2) => menu' = menu]_vars

\* The modal has been closed and its hide callback has not fired yet.
Closing == lastOp.op = "modalClose" /\ \E i \in 1..Len(timers) : timers[i] = "hide"

\* C17: on closing the cart modal (close button or backdrop) the active
\* class is cleared at once, and the modal is hidden and its aria-hidden set
\* to true only when the deferred callback fires: between the close click
\* and the callback, aria-hidden is still false.
C17_AriaHiddenDeferred ==
    Closing => /\ ~modal.active
               /\ modal.ariaHidden = "false"

\* C17 as the code has it: the close click clears the active class and sets
\* aria-hidden to true at once, leaving the display as it was and scheduling
\* one callback per listener; the callback changes the display to none and
\* nothing else.
C17_OnlyDisplayDeferred ==
    [][/\ lastOp'.op = "modalClose" =>
            /\ ~modal'.active
            /\ modal'.ariaHidden = "true"
            /\ modal'.display = modal.display
            /\ Len(timers') = Len(timers) + Listeners
            /\ \A i \in (Len(timers) + 1)..Len(timers') : timers'[i] = "hide"
       /\ lastOp'.op = "hideTimer" =>
            /\ modal'.display = "none"
            /\ modal'.ariaHidden = modal.ariaHidden
            /\ modal'.active = modal.active]_vars

\* An open, displayed modal has just been closed.
C17_Witness ==
    /\ Closing
    /\ modal = [ariaHidden |-> "true", display |-> "flex", active |-> FALSE]
    /\ Listeners = 1

\* The queue once its next callback of that kind has fired.
Fired(q, kind) == RemoveAt(q, NextTimer(q, kind))

IsPrefix(q, r) == Len(q) <= Len(r) /\ \A i \in 1..Len(q) : r[i] = q[i]

\* C18: pending callbacks of the modal are never cancelled: a callback
\* leaves the queue only by firing, and a click only adds to the queue, so a
\* click can come between the scheduling of a callback and its firing.  When
\* the modal is re-opened while the hide callback of a preceding close is
\* pending, that callback still fires after the open and hides the modal
\* whatever its marks say; when the modal is closed before the show callback
\* of the open has fired, that callback still sets the active class.
C18_TimersNeverCancelled ==
    [][/\ timers' # timers =>
            \/ lastOp'.op = "showTimer" /\ timers' = Fired(timers, "show")
            \/ lastOp'.op = "hideTimer" /\ timers' = Fired(timers, "hide")
            \/ lastOp'.op \in {"cartButton", "modalClose"} /\ IsPrefix(timers, timers')
       /\ lastOp'.op = "hideTimer" => modal' = [modal EXCEPT !.display = "none"]
       /\ lastOp'.op = "showTimer" => modal' = [modal EXCEPT !.active = TRUE]]_vars

\* The modal is marked open and is not displayed: it was re-opened with a
\* single listener while a hide callback was pending, and that callback has
\* fired.
C18_Witness ==
    /\ lastOp.op = "hideTimer"
    /\ Listeners = 1
    /\ modal = [ariaHidden |-> "false", display |-> "none", active |-> TRUE]
    /\ timers = <<>>

\* The other interleaving: closed before the show callback fired, which has
\* left the active class on a closed, hidden modal.
ActiveWhileClosed ==
    /\ Listeners = 1
    /\ modal = [ariaHidden |-> "true", display |-> "none", active |-> TRUE]
    /\ timers = <<>>

\* The three indicators of the menu agree.
Agree(m) == /\ (m.expanded = "true") = m.navActive
            /\ m.navActive = m.toggleActive
            /\ m.expanded \in {"true", "false"}

\* C19: with the header initialised once on a collapsed menu, through any
\* sequence of clicks on the toggle and on nav links the three indicators
\* agree: aria-expanded is true iff the nav list has its active class iff the
\* toggle has its active class; each click on the toggle flips that state,
\* and each click on a nav link leaves the menu collapsed.
C19_MenuIndicatorsAgree ==
    /\ [](Listeners = 1 => Agree(menu))
    /\ [][Listeners = 1 =>
            /\ lastOp'.op = "menuToggle" =>
                  /\ Agree(menu')
                  /\ menu'.navActive = ~menu.navActive
            /\ lastOp'.op = "navLink" =>
                  menu' = [expanded |-> "false", navActive |-> FALSE,
                           toggleActive |-> FALSE]]_vars

\* The menu has been expanded by a click on the toggle.
C19_Witness ==
    /\ Listeners = 1
    /\ lastOp.op = "menuToggle"
    /\ menu = [expanded |-> "true", navActive |-> TRUE, toggleActive |-> TRUE]

(***************************************************************************)
(* PathFixer.                                                              *)
(***************************************************************************)
RootRelative(str) == StartsWith(str, SlashText)

\* C20: when the path fixer runs on a page opened from a file, every
\* hyperlink href and every stylesheet or script reference that started with
\* "/" is rewritten and no longer starts with "/", for a document at the
\* site root and for one inside pages/.
C20_NoRootRelativeLeft ==
    [][(lastOp'.op = "pathFixer" /\ location.protocol = "file:") =>
          /\ \A i \in DOMAIN links :
                RootRelative(links[i]) =>
                    links'[i] # links[i] /\ ~RootRelative(links'[i])
          /\ \A i \in DOMAIN resources :
                RootRelative(resources[i]) =>
                    resources'[i] # resources[i] /\ ~RootRelative(resources'[i])]_vars

\* The part of C20 that holds: every root-relative stylesheet or script
\* reference is rewritten to a relative one, and the href "/" is.
ResourcesRewritten ==
    [][(lastOp'.op = "pathFixer" /\ location.protocol = "file:") =>
          /\ \A i \in DOMAIN resources :
                RootRelative(resources[i]) =>
                    resources'[i] # resources[i] /\ ~RootRelative(resources'[i])
          /\ \A i \in DOMAIN links :
                links[i] = SlashText => ~RootRelative(links'[i])]_vars

\* A root-relative href outside pages/ is left as it is, in any document.
RootPageLinkKept ==
    [][lastOp'.op = "pathFixer" =>
          \A i \in DOMAIN links :
              (RootRelative(links[i]) /\ links[i] # SlashText
                  /\ ~StartsWith(links[i], PagesDirText)) => links'[i] = links[i]]_vars

\* The file of an href of the form /pages/<file>.
FileOf(href) == SubSeq(href, Len(PagesDirText) + 1, Len(href))

\* C21: the path fixer rewrites every hyperlink of the form /pages/<file> to
\* <file> when the document is inside pages/, and to pages/<file> when it is
\* not.
C21_PagesLinkRewritten ==
    [][(lastOp'.op = "pathFixer" /\ location.protocol = "file:") =>
          \A i \in DOMAIN links :
              StartsWith(links[i], PagesDirText) =>
                  links'[i] = IF IsInPages(location)
                              THEN FileOf(links[i])
                              ELSE PagesText \o SlashText \o FileOf(links[i])]_vars

\* What the code leaves instead: /<file> inside pages/, pagess/<file>
\* outside.
PagesLinkOffByOne ==
    [][(lastOp'.op = "pathFixer" /\ location.protocol = "file:") =>
          \A i \in DOMAIN links :
              StartsWith(links[i], PagesDirText) =>
                  links'[i] = IF IsInPages(location)
                              THEN SlashText \o FileOf(links[i])
                              ELSE PagesText \o <<"s">> \o SlashText \o FileOf(links[i])]_vars

(***************************************************************************)
(* The controls of the cart rows.                                          *)
(***************************************************************************)
\* The cart without its r-th line item.
WithoutRow(c, r) == [j \in 1..(Len(c) - 1) |-> IF j < r THEN c[j] ELSE c[j + 1]]

\* C22: activating the remove control of a rendered row whose line item has
\* a number as identifier, as the catalogue's products have, removes exactly
\* that line item, as removeProduct called with the item's own identifier
\* does; the change is persisted and the display refreshed.
C22_RemoveControlRemoves ==
    [][(lastOp'.op = "clickRemove" /\ lastOp'.id.t = "number") =>
          /\ cart' = WithoutRow(cart, lastOp'.q.n)
          /\ cart' = RemoveProduct(Store, lastOp'.id).cart
          /\ storage' = SaveCart(storage, cart')
          /\ ui' = UpdateCartUI(ui, cart')]_vars

\* What the control does for an identifier that is a number: the string of
\* the row is strictly equal to no such identifier, so the cart stays as it
\* is, and is persisted and rendered again.
RemoveControlKeepsNumbers ==
    [][(lastOp'.op = "clickRemove" /\ lastOp'.id.t = "number") =>
          /\ \A i \in 1..Len(cart) : cart[i].id.t = "number" =>
                \E j \in 1..Len(cart') : cart'[j] = cart[i]
          /\ storage' = SaveCart(storage, cart')
          /\ ui' = UpdateCartUI(ui, cart')]_vars

\* The r-th line item is the only one changed, to quantity q.
OnlyRowSet(c, d, r, q) ==
    /\ Len(d) = Len(c)
    /\ d = [c EXCEPT ![r].quantity = Num(q)]

\* C23: activating the plus control of a rendered row increases exactly that
\* line item's quantity by 1; activating the minus control decreases it by 1,
\* and removes the line item when its quantity was 1; every other line item
\* is unchanged.
C23_QuantityControls ==
    [][/\ lastOp'.op = "clickPlus" =>
            OnlyRowSet(cart, cart', lastOp'.q.n, cart[lastOp'.q.n].quantity.n + 1)
       /\ lastOp'.op = "clickMinus" =>
            IF cart[lastOp'.q.n].quantity.n = 1
            THEN cart' = WithoutRow(cart, lastOp'.q.n)
            ELSE OnlyRowSet(cart, cart', lastOp'.q.n, cart[lastOp'.q.n].quantity.n - 1)]_vars

\* No other line item has an identifier that reads the same as the r-th one's.
Unambiguous(c, r) == \A j \in 1..Len(c) : LooseEq(c[j].id, c[r].id) => j = r

\* C23 holds for a row whose quantity is at least 1 and whose identifier
\* reads like no other's.
QuantityControlsOnSoundCart ==
    [][(lastOp'.op \in {"clickPlus", "clickMinus"}
            /\ cart[lastOp'.q.n].quantity.n >= 1
            /\ Unambiguous(cart, lastOp'.q.n)) =>
          IF lastOp'.op = "clickPlus"
          THEN OnlyRowSet(cart, cart', lastOp'.q.n, cart[lastOp'.q.n].quantity.n + 1)
          ELSE IF cart[lastOp'.q.n].quantity.n = 1
               THEN cart' = WithoutRow(cart, lastOp'.q.n)
               ELSE OnlyRowSet(cart, cart', lastOp'.q.n,
                               cart[lastOp'.q.n].quantity.n - 1)]_vars

\* The plus control of a row with quantity -1 removes the line item.
PlusRemovesNegative ==
    [][(lastOp'.op = "clickPlus"
            /\ cart[lastOp'.q.n].quantity.n = -1
            /\ Unambiguous(cart, lastOp'.q.n)) =>
          cart' = WithoutRow(cart, lastOp'.q.n)]_vars

(***************************************************************************)
(* Checkout.                                                               *)
(***************************************************************************)
\* A line item was inserted by the call before, with a checkout pending:
\* after the click, before its completion.
AddedWhilePending == pending > 0 /\ lastOp.op = "add" /\ ~lastOp.found

\* C24: a checkout click on an empty cart changes nothing and schedules
\* nothing; the completion of a checkout on a non-empty cart empties the cart
\* and the stored snapshot of the line items that were there at the click,
\* and of no others: a line item added between the click and the completion
\* is still in the cart after it.
C24_CheckoutDiscardsClickedOnly ==
    [][/\ (lastOp'.op = "checkoutClick" /\ cart = <<>>) =>
            UNCHANGED <<cart, storage, ui, pending, modal, timers>>
       /\ lastOp'.op = "checkoutDone" =>
            /\ storage' = SaveCart(storage, cart')
            /\ lastOp.op = "checkoutClick" => cart' = <<>>
            /\ AddedWhilePending => \E i \in 1..Len(cart') : cart'[i].id = lastOp.id]_vars

\* What the completion does: it empties the cart and the snapshot whatever
\* has been added or changed since the click; and a click on an empty cart
\* changes and schedules nothing.
CheckoutEmptiesAll ==
    [][/\ (lastOp'.op = "checkoutClick" /\ cart = <<>>) =>
            UNCHANGED <<cart, storage, ui, pending, modal, timers>>
       /\ (lastOp'.op = "checkoutClick" /\ cart # <<>>) =>
            pending' = pending + 1 /\ UNCHANGED <<cart, storage, ui>>
       /\ lastOp'.op = "checkoutDone" =>
            /\ cart' = <<>>
            /\ storage' = SaveCart(storage, <<>>)
            /\ ui' = UpdateCartUI(ui, <<>>)]_vars

====
